---------------------------- MODULE Spec2Model ----------------------------
(* A model of jazz_standards_playlist.py: the harvester of the index page,  *)
(* the extractor of recording citations, the catalog resolver with its      *)
(* interactive prompt, and the run loop that assembles the playlist in      *)
(* batches.                                                                 *)
(*                                                                          *)
(* Text is modelled as a sequence of one-character strings, so that lower-  *)
(* casing, stripping, splitting and the substring test `in` are computed as *)
(* Python computes them.  The external services (the web site, the catalog  *)
(* search, the console and the playlist service) are the environment: what  *)
(* they may answer is held in site_index, site_pages and catalog, and in    *)
(* the choices the actions make with \E.                                    *)
EXTENDS Integers, Sequences, FiniteSets, TLC

VARIABLES
    site_index,      \* the responses the site may give for the index page
    site_pages,      \* the responses the site may give for a work's page
    catalog,         \* the responses the catalog search may give
    pc,              \* where run() stands
    standards,       \* run(): standards
    playlist_id,     \* run(): playlist_id (0: no playlist created)
    i,               \* run(): index of the standard of the outer loop (1-based)
    recordings,      \* run(): recordings of the current standard
    j,               \* run(): index of the recording of the inner loop (1-based)
    q,               \* search_spotify_track: index of the query of its loop (1-based)
    results,         \* search_spotify_track: results['tracks']['items'] of the last search
    best_match,      \* search_spotify_track: best_match (NoTrack: None)
    is_strong_match, \* search_spotify_track: is_strong_match
    track_uri,       \* run(): track_uri returned by search_spotify_track (0: None)
    all_track_uris,  \* run(): the pending buffer
    fresh,           \* the id the next track accepted for the first time gets
    appends,         \* history: the playlist_add_items calls, in order
    issued,          \* history: the searches of the current recording, in order
    prompts,         \* history: proposals put to the user for the current recording
    touched,         \* history: which external calls the run has made so far,
                     \* and whether the last search failed
    reported,        \* run(): the track count of the final summary (-1: none printed)
    response         \* search_spotify_track: response, the last answer read

vars == <<site_index, site_pages, catalog, pc, standards, playlist_id, i,
          recordings, j, q, results, best_match, is_strong_match, track_uri,
          all_track_uris, fresh, appends, issued, prompts, touched, reported,
          response>>

-----------------------------------------------------------------------------
(* Bounds of the model.                                                     *)

\* The longest index page of a run (in works).
MaxWorks == 3
\* The index page of a run long enough to fill batches (in works).
BatchWorks == 10
\* Ids 1..MaxOld are the tracks the catalog may return again later in a run.
MaxOld == 1
\* The longest index page given to the harvester alone (in anchors).
MaxAnchors == 130

(* Constants of the program.                                                *)

TOP_N == 100
MAX_RECORDINGS == 6
BATCH == 50

None == 0

-----------------------------------------------------------------------------
(* Python's str operations on sequences of characters.                      *)

\* The characters of the model are those of Latin-1 (code points 0..255).
\* The cased letters among them: A-Z and the accented capitals, each with
\* its lower-case letter at the same position of LowerLetters.
UpperLetters == <<"A","B","C","D","E","F","G","H","I","J","K","L","M",
                  "N","O","P","Q","R","S","T","U","V","W","X","Y","Z",
                  "À","Á","Â","Ã","Ä","Å","Æ","Ç","È","É","Ê","Ë","Ì",
                  "Í","Î","Ï","Ð","Ñ","Ò","Ó","Ô","Õ","Ö","Ø","Ù","Ú",
                  "Û","Ü","Ý","Þ">>
LowerLetters == <<"a","b","c","d","e","f","g","h","i","j","k","l","m",
                  "n","o","p","q","r","s","t","u","v","w","x","y","z",
                  "à","á","â","ã","ä","å","æ","ç","è","é","ê","ë","ì",
                  "í","î","ï","ð","ñ","ò","ó","ô","õ","ö","ø","ù","ú",
                  "û","ü","ý","þ">>

\* the lower-case letter of each upper-case letter
LowerOf ==
    [c \in {UpperLetters[k] : k \in 1..Len(UpperLetters)} |->
        LowerLetters[CHOOSE k \in 1..Len(UpperLetters) : UpperLetters[k] = c]]

\* c.lower() of one character: every other character of Latin-1 is its own
\* lower case
LowerChar(c) == IF c \in DOMAIN LowerOf THEN LowerOf[c] ELSE c

\* str.lower()
Lower(s) == [k \in 1..Len(s) |-> LowerChar(s[k])]

\* The characters str.split() and str.strip() take for whitespace: space,
\* tab, line feed, carriage return, form feed, and (written literally) the
\* vertical tab, the separators 1C-1F, the next-line character 85 and the
\* no-break space A0.
Whitespace == {" ", "\t", "\n", "\r", "\f",
               "", "", "", "", "", "", " "}

\* c.isspace()
IsSpace(c) == c \in Whitespace

\* a in b
IsSubstring(a, b) ==
    \E k \in 0..(Len(b) - Len(a)) : \A m \in 1..Len(a) : b[k + m] = a[m]

\* s.startswith(p)
StartsWith(s, p) == Len(p) <= Len(s) /\ SubSeq(s, 1, Len(p)) = p

RECURSIVE SplitFrom(_, _, _)
SplitFrom(s, k, cur) ==
    IF k > Len(s)
    THEN (IF cur = <<>> THEN <<>> ELSE <<cur>>)
    ELSE IF IsSpace(s[k])
         THEN (IF cur = <<>> THEN SplitFrom(s, k + 1, <<>>)
                             ELSE <<cur>> \o SplitFrom(s, k + 1, <<>>))
         ELSE SplitFrom(s, k + 1, Append(cur, s[k]))

\* s.split(): the maximal runs of non-whitespace characters
Split(s) == SplitFrom(s, 1, <<>>)

\* s.strip()
Strip(s) ==
    LET keep == {k \in 1..Len(s) : ~IsSpace(s[k])}
    IN  IF keep = {} THEN <<>>
        ELSE LET lo == CHOOSE k \in keep : \A m \in keep : k <= m
                 hi == CHOOSE k \in keep : \A m \in keep : m <= k
             IN  SubSeq(s, lo, hi)

RECURSIVE Join(_, _)
\* sep.join(parts)
Join(sep, parts) ==
    IF parts = <<>> THEN <<>>
    ELSE IF Len(parts) = 1 THEN parts[1]
    ELSE parts[1] \o sep \o Join(sep, Tail(parts))

\* seq[:n]
Take(seq, n) == SubSeq(seq, 1, IF Len(seq) < n THEN Len(seq) ELSE n)
\* seq[n:]
Drop(seq, n) == SubSeq(seq, n + 1, Len(seq))

Range(seq) == {seq[k] : k \in 1..Len(seq)}

-----------------------------------------------------------------------------
(* Texts used as inputs.                                                    *)

AutumnLeaves == <<"A","u","t","u","m","n"," ","L","e","a","v","e","s">>
Misty == <<"M","i","s","t","y">>
BillEvans == <<"B","i","l","l"," ","E","v","a","n","s">>
MilesDavis == <<"M","i","l","e","s"," ","D","a","v","i","s">>
ChetBaker == <<"C","h","e","t"," ","B","a","k","e","r">>
StanGetz == <<"S","t","a","n"," ","G","e","t","z">>
BudPowell == <<"B","u","d"," ","P","o","w","e","l","l">>
ArtPepper == <<"A","r","t"," ","P","e","p","p","e","r">>
CountBasie == <<"C","o","u","n","t"," ","B","a","s","i","e">>
DukeEllington == <<"D","u","k","e"," ","E","l","l","i","n","g","t","o","n">>
BillEvansTrio == <<"B","i","l","l"," ","E","v","a","n","s"," ","T","r","i","o">>
Evans == <<"E","v","a","n","s">>
AutumnInNewYork == <<"A","u","t","u","m","n"," ","I","n"," ","N","e","w"," ","Y","o","r","k">>
BlueInGreen == <<"B","l","u","e"," ","I","n"," ","G","r","e","e","n">>
AUTUMNLEAVESLive == <<"A","U","T","U","M","N"," ","L","E","A","V","E","S"," ","-"," ","L","i","v","e">>
Live == <<"L","i","v","e">>
Y1959 == <<"1","9","5","9">>
Y1956 == <<"1","9","5","6">>
KindOfBlue == <<"K","i","n","d"," ","O","f"," ","B","l","u","e"," ","\n">>
HrefRoot == <<"/","c","o","m","p","o","s","i","t","i","o","n","s","-","0","/","a","u","t","u","m","n","l","e","a","v","e","s",".","h","t","m">>
HrefRel == <<"c","o","m","p","o","s","i","t","i","o","n","s","-","0","/","m","i","s","t","y",".","h","t","m">>
HrefDotDot == <<".",".","/","c","o","m","p","o","s","i","t","i","o","n","s","-","0","/","m","i","s","t","y",".","h","t","m">>
HrefAbs == <<"h","t","t","p","s",":","/","/","w","w","w",".","j","a","z","z","s","t","a","n","d","a","r","d","s",".","c","o","m","/","c","o","m","p","o","s","i","t","i","o","n","s","-","0","/","a","u","t","u","m","n","l","e","a","v","e","s",".","h","t","m">>
HrefOther == <<"/","h","i","s","t","o","r","y","/","i","n","d","e","x",".","h","t","m">>
TextPadded == <<" ","A","u","t","u","m","n"," ","L","e","a","v","e","s","\n">>
AutumnThenSpace == <<"A","u","t","u","m","n"," ">>
Leaves == <<"L","e","a","v","e","s">>
TextBlank == <<" ","\n">>

-----------------------------------------------------------------------------
(* scrape_top_100_standards                                                 *)

base_url == <<"h","t","t","p","s",":","/","/","w","w","w",".","j","a","z","z","s","t","a","n","d","a","r","d","s",".","c","o","m">>

Http == <<"h","t","t","p">>
HrefHead == <<"c","o","m","p","o","s","i","t","i","o","n","s","-","0","/">>
HrefTail == <<".","h","t","m">>

\* p occurs in s at position k
OccursAt(p, s, k) ==
    /\ k >= 1
    /\ k + Len(p) - 1 <= Len(s)
    /\ \A m \in 1..Len(p) : s[k + m - 1] = p[m]

\* re.compile(r'compositions-0/.*\.htm').search(href)
HrefMatches(href) ==
    \E a \in 1..Len(href) :
        /\ OccursAt(HrefHead, href, a)
        /\ \E b \in (a + Len(HrefHead))..Len(href) :
               /\ OccursAt(HrefTail, href, b)
               /\ \A m \in (a + Len(HrefHead))..(b - 1) : href[m] # "\n"

AnchorMatches(anchor) == HrefMatches(anchor.href)

\* soup.find_all('a', href=...)[:100]
StandardLinks(anchors) == Take(SelectSeq(anchors, AnchorMatches), TOP_N)

\* the 'url' of a standard
StandardUrl(href) ==
    IF ~StartsWith(href, Http) THEN base_url \o href ELSE href

RECURSIVE GetText(_)
\* link.get_text(strip=True): the strings of the element in document order,
\* each one stripped, the empty ones left out, joined with no separator
GetText(strings) ==
    IF strings = <<>> THEN <<>>
    ELSE Strip(Head(strings)) \o GetText(Tail(strings))

\* one dictionary of the list
Standard(link) == [title |-> GetText(link.strings), url |-> StandardUrl(link.href)]

\* The list scrape_top_100_standards returns for a response of the site:
\* an exception of the fetch is caught and leaves the list empty.
ScrapeTop100Standards(page) ==
    IF ~page.ok THEN <<>>
    ELSE LET links == StandardLinks(page.anchors)
         IN  [k \in 1..Len(links) |-> Standard(links[k])]

-----------------------------------------------------------------------------
(* scrape_recommended_recordings                                            *)

Sep == <<" ","-"," ">>

\* What indexing and iterating a match of re.findall give: the groups of a
\* tuple (a pattern of two groups), the 1-character strings of a str (a
\* pattern of one group).
MatchItems(match, groups) ==
    IF groups >= 2 THEN match
    ELSE [k \in 1..Len(match) |-> <<match[k]>>]

\* The recordings one match adds (lines 107-118).
MatchRecordings(items) ==
    IF Len(items) >= 2
    THEN << [artist |-> Strip(items[1]),
             info |-> IF Len(items) > 1 THEN Strip(items[2]) ELSE <<>>,
             full_text |-> Join(Sep, items)] >>
    ELSE IF Len(items) = 1
    THEN << [artist |-> Strip(items[1]), info |-> <<>>, full_text |-> items[1]] >>
    ELSE <<>>

RECURSIVE PatternRecordings(_, _)
PatternRecordings(matches, groups) ==
    IF matches = <<>> THEN <<>>
    ELSE MatchRecordings(MatchItems(Head(matches), groups))
         \o PatternRecordings(Tail(matches), groups)

\* The number of capture groups of the three patterns (lines 99-101).
PatternGroups == <<2, 2, 1>>

\* recordings before the duplicates are removed: pattern by pattern, each
\* pattern's matches in document order.
AllRecordings(page) ==
    PatternRecordings(page.found[1], PatternGroups[1])
    \o PatternRecordings(page.found[2], PatternGroups[2])
    \o PatternRecordings(page.found[3], PatternGroups[3])

\* the key a recording is deduplicated by
RecordingKey(recording) == Lower(recording.artist)

RECURSIVE UniqueRecordings(_, _)
\* lines 121-127
UniqueRecordings(recs, seen) ==
    IF recs = <<>> THEN <<>>
    ELSE LET key == RecordingKey(Head(recs))
         IN  IF key \notin seen
             THEN <<Head(recs)>> \o UniqueRecordings(Tail(recs), seen \cup {key})
             ELSE UniqueRecordings(Tail(recs), seen)

\* A slip of the limit: one recording too many.
MutLimitOneMore(recs) == Take(recs, MAX_RECORDINGS + 1)

\* line 129
LimitRecordings(recs) == Take(recs, MAX_RECORDINGS)

\* The list scrape_recommended_recordings returns for a response of the site.
ScrapeRecommendedRecordings(page) ==
    IF ~page.ok THEN <<>>
    ELSE LimitRecordings(UniqueRecordings(AllRecordings(page), {}))

-----------------------------------------------------------------------------
(* search_spotify_track                                                     *)

Space == <<" ">>

\* lines 157-161
Queries(standard_title, artist, recording_info) ==
    << artist \o Space \o standard_title,
       artist \o Space \o recording_info,
       standard_title \o Space \o artist >>

\* line 173
ArtistNames(track) == [k \in 1..Len(track.artists) |-> Lower(track.artists[k])]

\* line 176
ArtistMatch(track, artist) ==
    LET artist_names == ArtistNames(track)
        lowered == Lower(artist)
    IN  \E k \in 1..Len(artist_names) :
            \/ IsSubstring(lowered, artist_names[k])
            \/ IsSubstring(artist_names[k], lowered)

\* any(word in track_name for word in standard_title.lower().split())
AnyWordInName(track, standard_title) ==
    LET track_name == Lower(track.name)
    IN  \E w \in Range(Split(Lower(standard_title))) : IsSubstring(w, track_name)

\* line 177
TitleMatch(track, standard_title) ==
    \/ AnyWordInName(track, standard_title)
    \/ IsSubstring(Lower(standard_title), Lower(track.name))

\* line 179
IsStrongMatch(track, standard_title, artist) ==
    ArtistMatch(track, artist) /\ TitleMatch(track, standard_title)

\* A slip of the second loop: the artist is not looked at.
MutWeakByTitleAlone(track, standard_title, artist) ==
    AnyWordInName(track, standard_title)

\* lines 191-193
IsWeakMatch(track, standard_title, artist) ==
    /\ AnyWordInName(track, standard_title)
    /\ LET artist_names == ArtistNames(track)
           lowered == Lower(artist)
       IN  \E k \in 1..Len(artist_names) : IsSubstring(lowered, artist_names[k])

Least(S) == CHOOSE k \in S : \A m \in S : k <= m

\* lines 168-199: the track chosen from a non-empty result list, and
\* whether it is a strong match
SelectBest(items, standard_title, artist) ==
    LET strong == {k \in 1..Len(items) : IsStrongMatch(items[k], standard_title, artist)}
        weak   == {k \in 1..Len(items) : IsWeakMatch(items[k], standard_title, artist)}
    IN  IF strong # {} THEN [index |-> Least(strong), is_strong_match |-> TRUE]
        ELSE IF weak # {} THEN [index |-> Least(weak), is_strong_match |-> FALSE]
        ELSE [index |-> 1, is_strong_match |-> FALSE]

\* lines 201-203 read the name of the first artist and the name of the
\* album of best_match: a track with no artist raises IndexError, a track with
\* no album KeyError.
HasArtistAndAlbum(track) == track.artists # <<>> /\ "album" \in DOMAIN track

\* input(...).lower().strip(), and the three lists it is looked up in
Normalized(raw) == Strip(Lower(raw))
IsYes(answer) == answer \in {<<"y">>, <<"y","e","s">>}
IsNo(answer) == answer \in {<<"n">>, <<"n","o">>}
IsSkip(answer) == answer \in {<<"s">>, <<"s","k","i","p">>}

\* What the user may type at a prompt (the second line ends in a vertical
\* tab, the fourth begins with a no-break space).
Answers == { <<"y">>, <<"y","">>, <<" ","Y","e","s">>, <<"n">>,
             <<" ","N","O","\n">>, <<"s">>, <<"S","k","i","p">>,
             <<"m","a","y","b","e">>, <<>> }

-----------------------------------------------------------------------------
(* run: the playlist assembly                                               *)

\* A slip of line 301: the test of track_uri itself is left out.
MutOfferWhateverReturned(uri, buffer) == \A k \in 1..Len(buffer) : buffer[k] # uri

\* line 301
IsNewTrack(uri, buffer) == uri # None /\ uri \notin Range(buffer)

\* line 308
BatchIsFull(buffer) == Len(buffer) >= BATCH

\* A slip of the batch: the whole buffer is sent.
MutBatchIdsWholeBuffer(buffer) == buffer

\* line 309
BatchIds(buffer) == Take(buffer, BATCH)

\* A slip of the remainder: the last id sent stays in the buffer.
MutBatchRestOffByOne(buffer) == Drop(buffer, BATCH - 1)

\* A slip of line 310: the buffer is left as it is, and the batch sent again.
MutBatchRestKeepsBatch(buffer) == buffer

\* line 310
BatchRest(buffer) == Drop(buffer, BATCH)

\* A slip of the guard: the run goes on with an empty list.
MutNeverNothingToDo(list) == FALSE

\* line 266
NothingToDo(list) == list = <<>>

-----------------------------------------------------------------------------
(* The environment.                                                         *)

\* The anchors an index page is built from, each with the strings of its
\* content in document order: a root-relative link, a relative link, an
\* absolute link with padded text (a no-break space in front), a link that
\* is no composition, an image link (no text) relative to the parent
\* folder, and a link whose text is partly inside a nested element
\* (<a>Autumn <b>Leaves</b></a>).
AnchorKinds ==
    << [strings |-> <<AutumnLeaves>>,            href |-> HrefRoot],
       [strings |-> <<Misty>>,                   href |-> HrefRel],
       [strings |-> <<TextPadded>>,              href |-> HrefAbs],
       [strings |-> <<Misty>>,                   href |-> HrefOther],
       [strings |-> <<TextBlank>>,               href |-> HrefDotDot],
       [strings |-> <<AutumnThenSpace, Leaves>>, href |-> HrefRoot] >>

\* n anchors, taking the kinds in turn from kind number off + 1, the first
\* `kinds` kinds only
CyclicAnchors(n, off, kinds) ==
    [k \in 1..n |-> AnchorKinds[((k - 1 + off) % kinds) + 1]]

FailedPage == [ok |-> FALSE, anchors |-> <<>>]

\* The index pages of a run: the fetch fails, no link, and MaxWorks links.
RunIndex ==
    { FailedPage,
      [ok |-> TRUE, anchors |-> <<>>],
      [ok |-> TRUE, anchors |-> CyclicAnchors(MaxWorks, 0, 2)] }

\* The index pages given to the harvester alone.
HarvestIndex ==
    { FailedPage } \cup
    { [ok |-> TRUE, anchors |-> CyclicAnchors(n, off, Len(AnchorKinds))] :
          n \in 0..MaxAnchors, off \in 0..(Len(AnchorKinds) - 1) }

\* What re.findall returns on a page for the three patterns.
FailedDetail == [ok |-> FALSE, found |-> << <<>>, <<>>, <<>> >>]

Found1 == << <<BillEvans, Y1959>>, <<MilesDavis, Y1956>>, <<BillEvans, Y1956>>,
             <<ChetBaker, Y1959>>, <<StanGetz, Y1956>> >>
Found2 == << <<MilesDavis, KindOfBlue>>, <<BudPowell, AutumnLeaves>>,
             <<ArtPepper, KindOfBlue>>, <<CountBasie, Misty>> >>
Found3 == << DukeEllington, CountBasie, DukeEllington >>

\* The work pages of a run: the fetch fails, a page of one citation, and a
\* page of more than six.
RunPages ==
    { FailedDetail,
      [ok |-> TRUE, found |-> << <<>>, <<>>, SubSeq(Found3, 1, 1) >>],
      [ok |-> TRUE, found |-> << Found1, Found2, Found3 >>] }

\* The work pages of a run that is followed to its end: the fetch fails, a
\* page of one citation, and a page of two.
ShortPages ==
    { FailedDetail,
      [ok |-> TRUE, found |-> << <<>>, <<>>, SubSeq(Found3, 1, 1) >>],
      [ok |-> TRUE, found |-> << SubSeq(Found1, 1, 2), <<>>, <<>> >>] }

Slices(seq) == { SubSeq(seq, a, b) : a \in 1..(Len(seq) + 1), b \in 0..Len(seq) }

\* The work pages given to the extractor alone.
ExtractPages ==
    { FailedDetail } \cup
    { [ok |-> TRUE, found |-> << f1, f2, f3 >>] :
          f1 \in Slices(Found1), f2 \in Slices(Found2), f3 \in Slices(Found3) }

\* The result lists of the catalog (a track's uri is given by the search).
ErrorResponse == [ok |-> FALSE, items |-> <<>>]
EmptyResponse == [ok |-> TRUE, items |-> <<>>]
ResultList(tracks) == [ok |-> TRUE, items |-> tracks]
\* a track object of the catalog, and one that has no 'album' entry
Track(name, artists) == [name |-> name, artists |-> artists, album |-> Live]
TrackNoAlbum(name, artists) == [name |-> name, artists |-> artists]

RunCatalog ==
    { ErrorResponse, EmptyResponse,
      ResultList(<< Track(AutumnLeaves, <<BillEvans>>) >>) }

\* A catalog that answers every search of a long run with an error or with
\* one track that is a strong match for every citation of RunPages.
BatchCatalog ==
    { ErrorResponse,
      ResultList(<< Track(AutumnLeaves, <<BillEvans, MilesDavis, ChetBaker, StanGetz,
                                    BudPowell, ArtPepper>>) >>) }

ResolveCatalog ==
    { ErrorResponse, EmptyResponse,
      ResultList(<< Track(AutumnLeaves, <<BillEvans>>) >>),
      ResultList(<< Track(AutumnInNewYork, <<BillEvans>>),
              Track(AutumnLeaves, <<BillEvans>>) >>),
      ResultList(<< Track(BlueInGreen, <<MilesDavis>>),
              Track(AUTUMNLEAVESLive, <<BillEvansTrio, MilesDavis>>) >>),
      ResultList(<< Track(BlueInGreen, <<BillEvansTrio>>) >>),
      ResultList(<< Track(Misty, <<Evans>>) >>),
      ResultList(<< Track(AutumnLeaves, <<ChetBaker>>),
              Track(Misty, <<StanGetz>>) >>),
      ResultList(<< Track(Misty, <<>>) >>),
      ResultList(<< TrackNoAlbum(AutumnLeaves, <<BillEvans>>) >>) }

\* Track ids are opaque, so a run is told up to their renaming: a track
\* accepted for the first time gets the next id (fresh), and a result list
\* names a track accepted before by its id and any other track by 0.
OldUris == {u \in 1..MaxOld : u < fresh}

WithUris(tracks, p, u) ==
    [k \in 1..Len(tracks) |->
        IF "album" \in DOMAIN tracks[k]
        THEN [name |-> tracks[k].name, artists |-> tracks[k].artists,
              album |-> tracks[k].album, uri |-> IF k = p THEN u ELSE 0]
        ELSE [name |-> tracks[k].name, artists |-> tracks[k].artists,
              uri |-> IF k = p THEN u ELSE 0]]

NoTrack == [name |-> <<>>, artists |-> <<>>, uri |-> 0]
NoCalls == [index_error |-> FALSE, extract |-> FALSE, search |-> FALSE,
            search_error |-> FALSE, repeat |-> FALSE]
\* response before the first answer of a call is read
NoResponse == <<"unset">>

-----------------------------------------------------------------------------
(* The state after construction, and the states the parts start from when   *)
(* they are examined alone.                                                 *)

Idle ==
    /\ standards = <<>>
    /\ playlist_id = 0
    /\ i = 0
    /\ recordings = <<>>
    /\ j = 0
    /\ q = 0
    /\ results = <<>>
    /\ best_match = NoTrack
    /\ is_strong_match = FALSE
    /\ track_uri = None
    /\ all_track_uris = <<>>
    /\ fresh = 1
    /\ appends = <<>>
    /\ issued = <<>>
    /\ prompts = 0
    /\ touched = NoCalls
    /\ reported = -1
    /\ response = NoResponse

Init ==
    /\ site_index = RunIndex
    /\ site_pages = RunPages
    /\ catalog = RunCatalog
    /\ pc = "start"
    /\ Idle

-----------------------------------------------------------------------------
(* run, lines 260-273                                                       *)

\* standards = self.scrape_top_100_standards()
ScrapeStandards ==
    /\ pc = "start"
    /\ \E page \in site_index :
          /\ standards' = ScrapeTop100Standards(page)
          /\ touched' = [touched EXCEPT !.index_error = ~page.ok]
    /\ pc' = "harvested"
    /\ UNCHANGED <<site_index, site_pages, catalog, playlist_id, i, recordings,
                   j, q, results, best_match, is_strong_match, track_uri, all_track_uris, fresh,
                   appends, issued, prompts, reported, response>>

\* if not standards: return
NoStandards ==
    /\ pc = "harvested"
    /\ NothingToDo(standards)
    /\ pc' = "done"
    /\ UNCHANGED <<site_index, site_pages, catalog, standards, playlist_id, i,
                   recordings, j, q, results, best_match, is_strong_match, track_uri,
                   all_track_uris, fresh, appends, issued, prompts, touched,
                   reported, response>>

\* playlist_id = self.create_playlist(): an error of the service is not
\* caught, and ends the run.
CreatePlaylist ==
    /\ pc = "harvested"
    /\ ~NothingToDo(standards)
    /\ \E created \in BOOLEAN :
          IF created
          THEN playlist_id' = 1 /\ i' = 1 /\ pc' = "loop"
          ELSE playlist_id' = playlist_id /\ i' = i /\ pc' = "crashed"
    /\ UNCHANGED <<site_index, site_pages, catalog, standards, recordings, j, q,
                   results, best_match, is_strong_match, track_uri, all_track_uris, fresh,
                   appends, issued, prompts, touched, reported, response>>

(* run, lines 278-290 *)

\* recordings = self.scrape_recommended_recordings(standard['url']), and
\* the `continue` when there is none
ScrapeRecordings ==
    /\ pc = "loop"
    /\ i <= Len(standards)
    /\ \E page \in site_pages :
          LET found == ScrapeRecommendedRecordings(page)
          IN  /\ recordings' = found
              /\ IF found = <<>>
                 THEN i' = i + 1 /\ j' = j /\ q' = q /\ pc' = "loop"
                 ELSE i' = i /\ j' = 1 /\ q' = 1 /\ pc' = "search"
    /\ touched' = [touched EXCEPT !.extract = TRUE]
    /\ UNCHANGED <<site_index, site_pages, catalog, standards, playlist_id,
                   results, best_match, is_strong_match, track_uri, all_track_uris, fresh,
                   appends, issued, prompts, reported, response>>

(* search_spotify_track, lines 151-234 *)

\* return best_match['uri']
ReturnTrack(track) ==
    /\ track_uri' = (IF track.uri = 0 THEN fresh ELSE track.uri)
    /\ fresh' = (IF track.uri = 0 THEN fresh + 1 ELSE fresh)
    /\ touched' = [touched EXCEPT !.repeat = @ \/ track.uri # 0, !.search = TRUE,
                                !.search_error = FALSE]
    /\ pc' = "offer"
    /\ q' = q

\* return None: of line 225, of line 230, and of the handler of lines
\* 232-234 when the statement that raised came after the search
ReturnNone ==
    /\ track_uri' = None
    /\ fresh' = fresh
    /\ touched' = [touched EXCEPT !.search = TRUE, !.search_error = FALSE]
    /\ pc' = "offer"
    /\ q' = q

\* A slip of the handler: the error of a search leaves the call and ends
\* the run.
MutSearchErrorEscapes ==
    /\ track_uri' = None
    /\ fresh' = fresh
    /\ touched' = [touched EXCEPT !.search = TRUE, !.search_error = TRUE]
    /\ pc' = "crashed"
    /\ q' = q

\* except Exception (lines 232-234) when the search itself raised: the error
\* is logged, and None returned
SearchFailed ==
    /\ track_uri' = None
    /\ fresh' = fresh
    /\ touched' = [touched EXCEPT !.search = TRUE, !.search_error = TRUE]
    /\ pc' = "offer"
    /\ q' = q

\* A slip of the loop: after the last query the first one is tried again.
MutNextQueryStartsOver ==
    /\ q' = (IF q < Len(Queries(<<>>, <<>>, <<>>)) THEN q + 1 ELSE 1)
    /\ pc' = "search"
    /\ track_uri' = track_uri
    /\ fresh' = fresh
    /\ touched' = [touched EXCEPT !.search = TRUE, !.search_error = FALSE]

\* the next turn of `for query in queries`, or the end of the loop
NextQuery ==
    IF q < Len(Queries(<<>>, <<>>, <<>>))
    THEN /\ q' = q + 1
         /\ pc' = "search"
         /\ track_uri' = track_uri
         /\ fresh' = fresh
         /\ touched' = [touched EXCEPT !.search = TRUE, !.search_error = FALSE]
    ELSE ReturnNone

\* results = self.sp.search(q=query, ...), the choice of best_match and the
\* return of a strong match; an exception of the search, or of the reading
\* of best_match (lines 201-203), ends the call in the handler.
SearchQuery ==
    /\ pc = "search"
    /\ \E reply \in catalog :
       LET standard_title == standards[i].title
           artist == recordings[j].artist
           query == Queries(standard_title, artist, recordings[j].info)[q]
           best == SelectBest(reply.items, standard_title, artist)
       IN
       \E p \in 0..Len(reply.items) :
       \E u \in OldUris \cup {0} :
          LET items == WithUris(reply.items, p, u)
          IN  /\ issued' = Append(issued, [query |-> query, ok |-> reply.ok,
                                           items |-> items])
              /\ IF ~reply.ok
                 THEN /\ SearchFailed
                      /\ UNCHANGED <<results, best_match, is_strong_match, prompts>>
                 ELSE IF items = <<>>
                 THEN /\ NextQuery
                      /\ results' = items
                      /\ UNCHANGED <<best_match, is_strong_match, prompts>>
                 ELSE /\ results' = items
                      /\ best_match' = items[best.index]
                      /\ is_strong_match' = best.is_strong_match
                      /\ IF ~HasArtistAndAlbum(items[best.index])
                         THEN ReturnNone /\ prompts' = prompts
                         ELSE IF best.is_strong_match
                         THEN ReturnTrack(items[best.index]) /\ prompts' = prompts
                         ELSE /\ pc' = "prompt"
                              /\ prompts' = prompts + 1
                              /\ touched' = [touched EXCEPT !.search = TRUE,
                                                            !.search_error = FALSE]
                              /\ UNCHANGED <<q, track_uri, fresh>>
    /\ UNCHANGED <<site_index, site_pages, catalog, standards, playlist_id, i,
                   recordings, j, all_track_uris, appends, reported, response>>

\* input() returns a line (lines 216-227)
LineRead ==
    /\ \E raw \in Answers :
          /\ response' = Normalized(raw)
          /\ IF IsYes(response') THEN ReturnTrack(best_match)
             ELSE IF IsNo(response') THEN NextQuery
             ELSE IF IsSkip(response') THEN ReturnNone
             ELSE UNCHANGED <<pc, q, track_uri, fresh, touched>>
    /\ UNCHANGED <<results, best_match, is_strong_match, issued, prompts>>

\* input() raises EOFError, the input being at its end: the handler of lines
\* 232-234 returns None, and no answer was read
EndOfInput ==
    /\ ReturnNone
    /\ UNCHANGED <<response, results, best_match, is_strong_match, issued, prompts>>

\* input() raises KeyboardInterrupt, which is no Exception: it leaves
\* search_spotify_track and run(), whose frames are gone
KeyboardInterrupt ==
    /\ pc' = "crashed"
    /\ results' = <<>>
    /\ best_match' = NoTrack
    /\ is_strong_match' = FALSE
    /\ issued' = <<>>
    /\ prompts' = 0
    /\ response' = NoResponse
    /\ UNCHANGED <<q, track_uri, fresh, touched>>

\* one call of input("Accept this match? (y/n/s to skip all for this song): ")
\* and what follows it
Answer ==
    /\ pc = "prompt"
    /\ (LineRead \/ EndOfInput \/ KeyboardInterrupt)
    /\ UNCHANGED <<site_index, site_pages, catalog, standards, playlist_id, i,
                   recordings, j, all_track_uris, appends, reported>>

(* run, lines 301-314 *)

\* lines 301-305, and the next turn of the inner loop
Offer ==
    /\ pc = "offer"
    /\ all_track_uris' =
          IF IsNewTrack(track_uri, all_track_uris)
          THEN Append(all_track_uris, track_uri)
          ELSE all_track_uris
    /\ IF j < Len(recordings)
       THEN j' = j + 1 /\ q' = 1 /\ pc' = "search"
       ELSE j' = j /\ q' = q /\ pc' = "batch"
    /\ track_uri' = None
    /\ results' = <<>>
    /\ best_match' = NoTrack
    /\ is_strong_match' = FALSE
    /\ issued' = <<>>
    /\ prompts' = 0
    /\ response' = NoResponse
    /\ UNCHANGED <<site_index, site_pages, catalog, standards, playlist_id, i,
                   recordings, fresh, appends, touched, reported>>

\* add_tracks_to_playlist: an error of the service is caught and logged
AddTracksToPlaylist(track_uris, ok, final) ==
    appends' = Append(appends, [ids |-> track_uris, ok |-> ok, final |-> final])

\* lines 308-310, and the next turn of the outer loop
FlushIfFull ==
    /\ pc = "batch"
    /\ IF BatchIsFull(all_track_uris)
       THEN /\ \E ok \in BOOLEAN :
                  AddTracksToPlaylist(BatchIds(all_track_uris), ok, FALSE)
            /\ all_track_uris' = BatchRest(all_track_uris)
       ELSE UNCHANGED <<appends, all_track_uris>>
    /\ i' = i + 1
    /\ pc' = "loop"
    /\ UNCHANGED <<site_index, site_pages, catalog, standards, playlist_id,
                   recordings, j, q, results, best_match, is_strong_match, track_uri, fresh,
                   issued, prompts, touched, reported, response>>

\* lines 313-326: the remaining tracks and the summary
FlushRemainder ==
    /\ pc = "loop"
    /\ i > Len(standards)
    /\ IF all_track_uris # <<>>
       THEN \E ok \in BOOLEAN : AddTracksToPlaylist(all_track_uris, ok, TRUE)
       ELSE UNCHANGED appends
    /\ reported' = Len(all_track_uris)
    /\ pc' = "done"
    /\ UNCHANGED <<site_index, site_pages, catalog, standards, playlist_id, i,
                   recordings, j, q, results, best_match, is_strong_match, track_uri,
                   all_track_uris, fresh, issued, prompts, touched, response>>

Next ==
    \/ ScrapeStandards
    \/ NoStandards
    \/ CreatePlaylist
    \/ ScrapeRecordings
    \/ SearchQuery
    \/ Answer
    \/ Offer
    \/ FlushIfFull
    \/ FlushRemainder

Spec == Init /\ [][Next]_vars

\* a call of input() that ends the prompt: the answer y, n or s, the end of
\* the input, or an interrupt
Decide == Answer /\ pc' # "prompt"

InitFair ==
    /\ site_index = RunIndex
    /\ site_pages = ShortPages
    /\ catalog = RunCatalog
    /\ pc = "start"
    /\ Idle

\* The run when every call made returns and every prompt is, in the end,
\* answered with y, n or s: run() is one sequential thread, which goes on
\* as long as it has a next statement.
SpecFair == InitFair /\ [][Next]_vars /\ WF_vars(Next) /\ WF_vars(Decide)

-----------------------------------------------------------------------------
(* A long run: BatchWorks works of the same title, and a catalog whose      *)
(* every result list holds a strong match, so that no prompt is made.       *)

InitBatch ==
    /\ site_index = { [ok |-> TRUE, anchors |-> CyclicAnchors(BatchWorks, 0, 1)] }
    /\ site_pages = RunPages
    /\ catalog = BatchCatalog
    /\ pc = "start"
    /\ Idle

NextBatch ==
    \/ ScrapeStandards
    \/ CreatePlaylist
    \/ ScrapeRecordings
    \/ SearchQuery
    \/ Offer
    \/ FlushIfFull
    \/ FlushRemainder

SpecBatch == InitBatch /\ [][NextBatch]_vars

\* The long run when every call made returns.
SpecBatchFair == InitBatch /\ [][NextBatch]_vars /\ WF_vars(NextBatch)

(* The harvester alone, on every index page of HarvestIndex.                *)

InitHarvest ==
    /\ site_index \in { {page} : page \in HarvestIndex }
    /\ site_pages = RunPages
    /\ catalog = RunCatalog
    /\ pc = "start"
    /\ Idle

NextHarvest == ScrapeStandards

SpecHarvest == InitHarvest /\ [][NextHarvest]_vars

(* The extractor alone, on every work page of ExtractPages.                 *)

InitExtract ==
    /\ site_index = RunIndex
    /\ site_pages \in { {page} : page \in ExtractPages }
    /\ catalog = RunCatalog
    /\ pc = "loop"
    /\ standards = << Standard(AnchorKinds[1]) >>
    /\ playlist_id = 1
    /\ i = 1
    /\ recordings = <<>>
    /\ j = 0
    /\ q = 0
    /\ results = <<>>
    /\ best_match = NoTrack
    /\ is_strong_match = FALSE
    /\ track_uri = None
    /\ all_track_uris = <<>>
    /\ fresh = 1
    /\ appends = <<>>
    /\ issued = <<>>
    /\ prompts = 0
    /\ touched = NoCalls
    /\ reported = -1
    /\ response = NoResponse

NextExtract == ScrapeRecordings

SpecExtract == InitExtract /\ [][NextExtract]_vars

(* The resolver alone, on the first citation of a work, against the result  *)
(* lists of ResolveCatalog.                                                 *)

ResolveTitles == {AutumnLeaves, Misty}
ResolveArtists == {BillEvans, MilesDavis}
\* the second group of a match: a year (pattern 1), and the blank pattern 2
\* captures in 'Bill Evans - ('
ResolveInfos == {Y1959, <<" ">>}

InitResolve ==
    /\ site_index = RunIndex
    /\ site_pages = RunPages
    /\ catalog = ResolveCatalog
    /\ pc = "search"
    /\ \E title \in ResolveTitles :
          standards = << [title |-> title, url |-> StandardUrl(HrefRoot)] >>
    /\ \E artist \in ResolveArtists, info \in ResolveInfos :
          recordings = MatchRecordings(MatchItems(<<artist, info>>, 2))
    /\ playlist_id = 1
    /\ i = 1
    /\ j = 1
    /\ q = 1
    /\ results = <<>>
    /\ best_match = NoTrack
    /\ is_strong_match = FALSE
    /\ track_uri = None
    /\ all_track_uris = <<>>
    /\ fresh = 1
    /\ appends = <<>>
    /\ issued = <<>>
    /\ prompts = 0
    /\ touched = [NoCalls EXCEPT !.extract = TRUE]
    /\ reported = -1
    /\ response = NoResponse

NextResolve == SearchQuery \/ Answer

SpecResolve == InitResolve /\ [][NextResolve]_vars

-----------------------------------------------------------------------------
(* What the properties are stated with.                                     *)

RECURSIVE SubmittedFrom(_)
SubmittedFrom(calls) ==
    IF calls = <<>> THEN <<>>
    ELSE Head(calls).ids \o SubmittedFrom(Tail(calls))

\* every id handed to the playlist service so far, in order
Submitted == SubmittedFrom(appends)

AllAppendsOk == \A k \in 1..Len(appends) : appends[k].ok

\* the number of different tracks accepted so far: they are numbered in the
\* order of their first acceptance
Accepted == fresh - 1

\* the work and the citation the resolver is working on
CurrentTitle == standards[i].title
CurrentArtist == recordings[j].artist
CurrentInfo == recordings[j].info

IsHit(search) == search.ok /\ search.items # <<>>
Hits(log) == {k \in 1..Len(log) : IsHit(log[k])}

\* the citation's artist contains, or is contained in, one of the track's
\* artist names, whatever the case
ArtistContainment(track, artist) ==
    \E k \in 1..Len(track.artists) :
        \/ IsSubstring(Lower(artist), Lower(track.artists[k]))
        \/ IsSubstring(Lower(track.artists[k]), Lower(artist))

EveryWordInName(track, title) ==
    \A w \in Range(Split(Lower(title))) : IsSubstring(w, Lower(track.name))

SomeWordInName(track, title) ==
    \E w \in Range(Split(Lower(title))) : IsSubstring(w, Lower(track.name))

WholeTitleInName(track, title) == IsSubstring(Lower(title), Lower(track.name))

\* Tier 1 as the specification words it: every word of the title
Tier1(track) ==
    /\ ArtistContainment(track, CurrentArtist)
    /\ EveryWordInName(track, CurrentTitle) \/ WholeTitleInName(track, CurrentTitle)

\* the test the resolver accepts a track on without asking: some word
AcceptedUnasked(track) ==
    /\ ArtistContainment(track, CurrentArtist)
    /\ SomeWordInName(track, CurrentTitle) \/ WholeTitleInName(track, CurrentTitle)

Tier1Indices(items) == {k \in 1..Len(items) : Tier1(items[k])}
UnaskedIndices(items) == {k \in 1..Len(items) : AcceptedUnasked(items[k])}

\* the resolver has returned a track, and the last result list was not
\* put to the user
ReturnedUnasked ==
    pc = "offer" /\ track_uri # None /\ prompts < Cardinality(Hits(issued))

\* the one response of the site when a part is examined alone
TheIndexPage == CHOOSE page \in site_index : TRUE
TheWorkPage == CHOOSE page \in site_pages : TRUE

-----------------------------------------------------------------------------
(* The assembler.                                                           *)

\* C1: no track id is handed to the playlist service twice in a run,
\* whether or not a batch was flushed between the two offers of the id.
C1_EachTrackSubmittedOnce == Cardinality(Range(Submitted)) = Len(Submitted)

\* C2: no call of the playlist service carries more than 50 ids, be it a
\* batch of the loop or the remainder at the end.
C2_BatchCeiling == \A k \in 1..Len(appends) : Len(appends[k].ids) <= 50

\* A finished run with a batch of the loop and a remainder.
C2_Witness ==
    /\ pc = "done"
    /\ Len(appends) = 2
    /\ ~appends[1].final /\ Len(appends[1].ids) = 50
    /\ appends[2].final /\ Len(appends[2].ids) > 0

\* C7: when the accepted ids are all different and no call fails, the calls
\* cut the accepted ids, in the order of acceptance, into consecutive
\* pieces: every call of the loop carries the 50 oldest pending ids, and
\* one last call at the end carries the N mod 50 that remain (none when
\* that is 0).
C7_BatchesPartitionAccepted ==
    (~touched.repeat /\ AllAppendsOk) =>
        /\ \A k \in 1..Len(appends) :
              IF appends[k].final
              THEN k = Len(appends) /\ pc = "done"
              ELSE appends[k].ids = [m \in 1..50 |-> 50 * (k - 1) + m]
        /\ pc = "done" =>
              /\ Submitted = [m \in 1..Accepted |-> m]
              /\ Len(appends) = (Accepted \div 50) + (IF Accepted % 50 = 0 THEN 0 ELSE 1)
              /\ Accepted % 50 # 0 =>
                    /\ appends[Len(appends)].final
                    /\ Len(appends[Len(appends)].ids) = Accepted % 50
              /\ Accepted % 50 = 0 => \A k \in 1..Len(appends) : ~appends[k].final

\* A finished run of 55 different accepted ids: a call of 50, then one of 5.
C7_Witness ==
    /\ pc = "done"
    /\ ~touched.repeat /\ AllAppendsOk
    /\ Accepted = 55
    /\ Len(appends) = 2
    /\ Len(appends[1].ids) = 50 /\ ~appends[1].final
    /\ Len(appends[2].ids) = 5 /\ appends[2].final

\* C12: the pending buffer never holds more than 50 ids: a flush fires as
\* soon as its size reaches 50.
C12_BufferCeiling == Len(all_track_uris) <= 50

\* C17: a failed call of the loop is not retried: the batch is the 50
\* oldest pending ids and is cut from the buffer just as after a call that
\* succeeded, the run goes on with the next work, and no later call
\* carries the failed batch again.
C17_FailedBatchNotRetried ==
    /\ [][ Len(appends') > Len(appends) =>
              LET call == appends'[Len(appends')]
              IN  IF call.final
                  THEN call.ids = all_track_uris /\ pc' = "done"
                  ELSE /\ call.ids = Take(all_track_uris, 50)
                       /\ all_track_uris' = Drop(all_track_uris, 50)
                       /\ pc' = "loop" /\ i' = i + 1 ]_vars
    /\ [](\A k \in 1..Len(appends) :
              ~appends[k].ok =>
                  \A m \in (k + 1)..Len(appends) : appends[m].ids # appends[k].ids)

\* A finished run whose batch of the loop failed: the remainder was sent
\* after it, and the ids of the batch were not.
C17_Witness ==
    /\ pc = "done"
    /\ Len(appends) = 2
    /\ ~appends[1].ok /\ ~appends[1].final /\ Len(appends[1].ids) = 50
    /\ appends[2].final
    /\ Range(appends[2].ids) \cap Range(appends[1].ids) = {}

\* C19: the number of tracks the summary reports as added is the number of
\* ids handed to the playlist service by all the calls of the run, those of
\* the loop and the last one.
C19_SummaryCountsSubmitted == reported # -1 => reported = Len(Submitted)

-----------------------------------------------------------------------------
(* The resolver.                                                            *)

\* C3: when the result list of the first query that returns results holds a
\* Tier-1 candidate at any position, the resolver returns the first such
\* candidate's track and asks nothing.
C3_Tier1ShortCircuit ==
    ( /\ issued # <<>>
      /\ Hits(issued) = {Len(issued)}
      /\ Tier1Indices(issued[Len(issued)].items) # {} )
    => /\ pc = "offer"
       /\ track_uri # None
       /\ prompts = 0
       /\ best_match = LET items == issued[Len(issued)].items
                       IN  items[Least(Tier1Indices(items))]

\* C4: a track returned without a decision of the user passes the Tier-1
\* test: a track whose name holds only some of the title's words, or none,
\* is never accepted unasked.
C4_OnlyTier1Unasked == ReturnedUnasked => Tier1(best_match)

\* the three queries of the current citation, in the order of the
\* specification
QueriesInOrder ==
    << CurrentArtist \o <<" ">> \o CurrentTitle,
       CurrentArtist \o <<" ">> \o CurrentInfo,
       CurrentTitle \o <<" ">> \o CurrentArtist >>

\* query 1 returned no candidate and query 2 a Tier-1 candidate
EmptyThenTier1 ==
    /\ Len(issued) >= 2
    /\ issued[1].ok /\ issued[1].items = <<>>
    /\ Tier1Indices(issued[2].items) # {}

\* C5: the queries are issued in the order "{artist} {title}",
\* "{artist} {info}", "{title} {artist}"; when query 1 returns no candidate
\* and query 2 returns a Tier-1 candidate, the resolver returns query 2's
\* Tier-1 track, and query 3 is never issued.
C5_QueryFallthrough ==
    /\ Len(issued) <= 3
    /\ \A k \in 1..Len(issued) : issued[k].query = QueriesInOrder[k]
    /\ EmptyThenTier1 =>
          /\ Len(issued) = 2
          /\ pc = "offer"
          /\ track_uri # None
          /\ prompts = 0
          /\ best_match = issued[2].items[Least(Tier1Indices(issued[2].items))]

\* What holds of the fallthrough as coded: the order of the queries, and
\* after an empty query 1 and a Tier-1 candidate in query 2 the return,
\* unasked and without a third query, of the first track of query 2 that
\* passes the resolver's own test.
FallthroughAsCoded ==
    /\ Len(issued) <= 3
    /\ \A k \in 1..Len(issued) : issued[k].query = QueriesInOrder[k]
    /\ EmptyThenTier1 =>
          /\ Len(issued) = 2
          /\ pc = "offer"
          /\ track_uri # None
          /\ prompts = 0
          /\ best_match = issued[2].items[Least(UnaskedIndices(issued[2].items))]

\* C6: a search that fails counts as a search without candidates: after a
\* failure of query 1 or 2 the resolver goes on with the queries that are
\* left, and returns what a later query yields.
C6_SearchErrorFallsThrough ==
    ( /\ pc = "offer"
      /\ \E k \in 1..Len(issued) : k < 3 /\ ~issued[k].ok )
    => (Len(issued) = 3 \/ track_uri # None)

\* query 1 returned candidates, none of them Tier-1, and query 2 returned a
\* Tier-1 candidate
NoTier1ThenTier1 ==
    /\ Len(issued) >= 2
    /\ IsHit(issued[1]) /\ Tier1Indices(issued[1].items) = {}
    /\ Tier1Indices(issued[2].items) # {}

\* C13: a proposal is put to the user only after all three queries were
\* tried without a Tier-1 hit: no prompt is made while a query is untried,
\* so that when query 1 returns candidates none of which is Tier-1 and
\* query 2 returns a Tier-1 candidate, that track is accepted unasked; and
\* a proposal is taken from the first query that returned results.
C13_ProposalAfterAllQueries ==
    /\ prompts > 0 => Len(issued) = 3
    /\ NoTier1ThenTier1 =>
          /\ prompts = 0
          /\ pc = "offer"
          /\ track_uri # None
          /\ best_match = issued[2].items[Least(Tier1Indices(issued[2].items))]
    /\ pc = "prompt" =>
          best_match \in Range(issued[Least(Hits(issued))].items)

\* C14: after a rejection the resolver stays in the result list of the same
\* query: once a query has returned candidates no further query is issued,
\* every proposal is another candidate of that list, and the result is no
\* match only when every candidate of the list has been rejected.
C14_RejectStaysInList ==
    Hits(issued) # {} =>
        LET first == Least(Hits(issued))
        IN  /\ Len(issued) = first
            /\ prompts <= Len(issued[first].items)
            /\ pc = "prompt" =>
                  /\ results = issued[first].items
                  /\ best_match \in Range(results)
            /\ (pc = "offer" /\ track_uri = None /\ IsNo(response)) =>
                  prompts = Len(issued[first].items)

\* C15: the decision to skip abandons the current citation only: the
\* resolver returns None at once, without another search or prompt,
\* nothing is added to the buffer, and the run goes on with the next
\* citation of the same work (or, after the last one, with the batch test).
C15_SkipAbandonsCitation ==
    /\ [](IsSkip(response) => pc = "offer" /\ track_uri = None)
    /\ [][ (IsSkip(response') /\ ~IsSkip(response)) =>
              /\ pc = "prompt"
              /\ issued' = issued /\ prompts' = prompts
              /\ all_track_uris' = all_track_uris ]_vars
    /\ [][ IsSkip(response) =>
              /\ all_track_uris' = all_track_uris
              /\ appends' = appends
              /\ i' = i /\ recordings' = recordings
              /\ IF j < Len(recordings)
                 THEN j' = j + 1 /\ pc' = "search" /\ q' = 1
                 ELSE j' = j /\ pc' = "batch" ]_vars

\* The user has skipped a citation that is not the last of its work, in a
\* run that has accepted a track before.
C15_Witness ==
    /\ IsSkip(response)
    /\ pc = "offer"
    /\ j < Len(recordings)
    /\ all_track_uris # <<>>

\* C18: the second selection loop never chooses: a candidate that passes
\* its test (a word of the title in the name, the citation's artist in an
\* artist name) passes the first loop's test as well, so a proposal put
\* to the user is always the first candidate of the result list.
C18_Tier2NeverChooses ==
    /\ \A k \in 1..Len(issued) : \A n \in 1..Len(issued[k].items) :
          IsWeakMatch(issued[k].items[n], CurrentTitle, CurrentArtist)
              => IsStrongMatch(issued[k].items[n], CurrentTitle, CurrentArtist)
    /\ pc = "prompt" =>
          /\ ~is_strong_match
          /\ results = issued[Len(issued)].items
          /\ best_match = results[1]

\* A proposal from a list whose second candidate holds the title.
C18_Witness ==
    /\ pc = "prompt"
    /\ Len(results) >= 2
    /\ AnyWordInName(results[2], CurrentTitle)
    /\ ~AnyWordInName(results[1], CurrentTitle)
    /\ best_match = results[1]

-----------------------------------------------------------------------------
(* The extractor.                                                           *)

\* the places of the concatenated matches that hold a first occurrence of
\* their artist, whatever the case
FirstOccurrences(all) ==
    {k \in 1..Len(all) :
        \A m \in 1..(k - 1) : Lower(all[m].artist) # Lower(all[k].artist)}

\* the n-th of them
NthOccurrence(all, n) ==
    CHOOSE k \in FirstOccurrences(all) :
        Cardinality({m \in FirstOccurrences(all) : m < k}) = n - 1

\* C8: the citations returned for a page hold no two artists that are equal
\* whatever the case, keep the first occurrence of each artist in pattern-
\* then-document order, and are 6 at most.
C8_CitationsUniqueAndCapped ==
    (touched.extract /\ TheWorkPage.ok) =>
        LET all == AllRecordings(TheWorkPage)
            first == Cardinality(FirstOccurrences(all))
        IN  /\ Len(recordings) <= 6
            /\ Len(recordings) = IF first < 6 THEN first ELSE 6
            /\ \A a, b \in 1..Len(recordings) :
                  a # b => Lower(recordings[a].artist) # Lower(recordings[b].artist)
            /\ \A n \in 1..Len(recordings) :
                  recordings[n] = all[NthOccurrence(all, n)]

\* A page with repeated artists and more than 6 different ones.
C8_Witness ==
    /\ touched.extract
    /\ TheWorkPage.ok
    /\ Cardinality(FirstOccurrences(AllRecordings(TheWorkPage))) > 6
    /\ Len(AllRecordings(TheWorkPage)) >
          Cardinality(FirstOccurrences(AllRecordings(TheWorkPage)))
    /\ Len(recordings) = 6

\* the capture groups of a match of a pattern of `groups` groups
CaptureGroups(match, groups) == IF groups >= 2 THEN match ELSE << match >>

\* the citation the specification makes of a match
Normalization(match, groups) ==
    LET captured == CaptureGroups(match, groups)
    IN  [artist |-> Strip(captured[1]),
         info |-> IF Len(captured) >= 2 THEN Strip(captured[2]) ELSE <<>>,
         full_text |-> Join(Sep, captured)]

\* C16: every citation is the normalization of a match: its artist is the
\* whole first capture group, its info the second group when the pattern
\* has one and empty otherwise (so for a match of the "and His Orchestra"
\* pattern), and its display text the groups joined with " - ".
C16_MatchesNormalized ==
    (touched.extract /\ TheWorkPage.ok) =>
        \A n \in 1..Len(recordings) :
            \E p \in 1..Len(PatternGroups) :
            \E m \in 1..Len(TheWorkPage.found[p]) :
                recordings[n] = Normalization(TheWorkPage.found[p][m], PatternGroups[p])

-----------------------------------------------------------------------------
(* The harvester.                                                           *)

SchemeLength(url) ==
    IF StartsWith(url, <<"h","t","t","p","s",":","/","/">>) THEN 8
    ELSE IF StartsWith(url, <<"h","t","t","p",":","/","/">>) THEN 7
    ELSE 0

\* what stands between the scheme and the path
HostOf(url) ==
    LET rest == Drop(url, SchemeLength(url))
        slashes == {k \in 1..Len(rest) : rest[k] = "/"}
    IN  IF slashes = {} THEN rest ELSE SubSeq(rest, 1, Least(slashes) - 1)

IsLetter(c) == c \in Range(UpperLetters) \cup Range(LowerLetters)

\* dot-separated labels, none empty, the last one of letters only
IsHostName(host) ==
    /\ host # <<>>
    /\ host[1] # "." /\ host[Len(host)] # "."
    /\ \A k \in 1..(Len(host) - 1) : ~(host[k] = "." /\ host[k + 1] = ".")
    /\ LET dots == {k \in 1..Len(host) : host[k] = "."}
           last == IF dots = {} THEN 0 ELSE CHOOSE k \in dots : \A m \in dots : m <= k
       IN  \A k \in (last + 1)..Len(host) : IsLetter(host[k])

WellFormedAbsolute(url) == SchemeLength(url) > 0 /\ IsHostName(HostOf(url))

\* C9: the harvester returns 100 works at most, in document order, each
\* with a title that is not empty and an absolute, well-formed location,
\* whether the link is absolute, root-relative or relative.
C9_WorksWellFormed ==
    pc = "harvested" =>
        LET links == SelectSeq(TheIndexPage.anchors, AnchorMatches)
        IN  /\ Len(standards) <= 100
            /\ Len(standards) <= Len(links)
            /\ \A k \in 1..Len(standards) :
                  /\ standards[k].title = GetText(links[k].strings)
                  /\ standards[k].title # <<>>
                  /\ WellFormedAbsolute(standards[k].url)

\* C10: when the fetch of the index page fails the harvest is empty and no
\* exception escapes; the run ends having created no playlist, extracted no
\* citation, searched nothing and added nothing.
C10_FailedHarvestEndsRun ==
    touched.index_error =>
        /\ standards = <<>>
        /\ pc \in {"harvested", "done"}
        /\ playlist_id = 0
        /\ ~touched.extract
        /\ ~touched.search
        /\ appends = <<>>

\* The run has ended after a failed fetch of the index page.
C10_Witness == touched.index_error /\ pc = "done"

-----------------------------------------------------------------------------
(* The run as a whole.                                                      *)

\* the run stands in the loop over the works, or below it
InTheLoop == pc \in {"loop", "search", "prompt", "offer", "batch"}

\* the run has ended with the remainder sent and the summary printed
Completed == pc = "done" /\ i = Len(standards) + 1 /\ reported # -1

\* C11: once the playlist is created no failure ends the run: whatever
\* pages fail to load, searches fail and append calls fail, the works are
\* taken in the order of the list, one after the other, the citations of a
\* work are handed to the resolver in the order of extraction, all of them,
\* and the remainder flush at the end is reached.
C11_FailuresDoNotAbort ==
    /\ [](playlist_id # 0 => pc # "crashed")
    /\ [](pc = "batch" => j = Len(recordings))
    /\ [][ InTheLoop =>
            /\ i' # i =>
                  /\ i' = i + 1
                  /\ \/ pc = "loop" /\ recordings' = <<>>
                     \/ pc = "batch"
            /\ j' # j =>
                  /\ pc' = "search" /\ q' = 1
                  /\ \/ pc = "loop" /\ j' = 1 /\ recordings' # <<>>
                     \/ /\ pc = "offer" /\ j' = j + 1 /\ j' <= Len(recordings)
                        /\ recordings' = recordings /\ i' = i
            /\ pc' = "done" => i > Len(standards) /\ pc = "loop" ]_vars
    /\ (playlist_id # 0 ~> Completed)

\* A run that came to its end although an append call of the loop failed,
\* the last search made failed, and the page of the last work could not be
\* loaded.
C11_Witness ==
    /\ Completed
    /\ Len(standards) = BatchWorks
    /\ touched.extract /\ recordings = <<>>
    /\ touched.search_error
    /\ \E k \in 1..Len(appends) : ~appends[k].ok /\ ~appends[k].final

\* the run was interrupted at a prompt, which got no answer
InterruptedAtPrompt == pc = "crashed" /\ playlist_id # 0

\* C20: the run terminates: a citation causes 3 searches and 3 proposals at
\* most and adds one id at most to the buffer, the works are taken one after
\* the other, and when every call returns and every prompt is in the end
\* left, the run comes to its end: after the last work when a playlist was
\* created, unless a prompt was interrupted instead of answered, which is
\* the only way the run is left once the playlist exists.
C20_RunTerminates ==
    /\ [](Len(issued) <= 3 /\ prompts <= 3)
    /\ [][ /\ Len(all_track_uris') <= Len(all_track_uris) + 1
           /\ i' \in {i, i + 1}
           /\ InterruptedAtPrompt' /\ ~InterruptedAtPrompt => pc = "prompt" ]_vars
    /\ [](pc = "done" /\ playlist_id # 0 => i = Len(standards) + 1)
    /\ <>(pc \in {"done", "crashed"})
    /\ (playlist_id # 0 ~> (pc = "done" \/ InterruptedAtPrompt))

\* A run of MaxWorks works that has ended with tracks accepted on the way.
C20_Witness ==
    /\ pc = "done"
    /\ playlist_id # 0
    /\ Len(standards) = MaxWorks
    /\ i = Len(standards) + 1
    /\ appends # <<>>

\* Three proposals have been rejected for one citation, after three searches.
ThreeProposalsRejected ==
    pc = "offer" /\ Len(issued) = 3 /\ prompts = 3 /\ IsNo(response)

=============================================================================
